---- MODULE Spec2Model ----
(***************************************************************************)
(* Model of src/skills_gap_analysis.py: the gap computation engine         *)
(* (calcular_gaps), the per-role summary (resumen_por_rol), the critical   *)
(* skill ranking (skills_mas_criticas) and the training recommender        *)
(* (recomendaciones_formacion), run in the order of main().                *)
(*                                                                         *)
(* A DataFrame is a sequence of records.  Roles, skill names and ids are   *)
(* small integers (their sort rank); a cell is an integer, NaN (missing)   *)
(* or TEXT (a non-numeric string).  The pass-through columns nombre,       *)
(* apellido, course_name, provider and modality are never read by the      *)
(* engine and are left out; course_id stands for the course.               *)
(***************************************************************************)
EXTENDS Integers, Sequences, FiniteSets, TLC

VARIABLES pc, empleados, skills_roles, skills_empleados, formaciones,
          has_weight, has_duration, df_gaps, resumen_rol, criticas,
          rec_formacion

vars == <<pc, empleados, skills_roles, skills_empleados, formaciones,
          has_weight, has_duration, df_gaps, resumen_rol, criticas,
          rec_formacion>>

(* ---------------- bounds of the model ---------------- *)
\* the most rows the employee, skill-record and role-requirement tables hold
\* together
MaxRows == 4
\* the most rows of the course table
MaxCourses == 2
\* the largest top_n asked of the ranking, and minus the smallest
MaxTopN == 2

(* ---------------- cells ---------------- *)
\* pandas' NaN: a missing cell, and the result of a failed coercion.
NaN == -99
\* a cell holding a non-numeric string
TEXT == -98

Roles == {1, 2}
Skills == {1, 2}
\* skill_level cells: below and above the required level 2, or text
SkillLevels == {1, 3, TEXT}
\* the (required_level, weight) cells of a requirement
Requirements == { <<2, -1>>, <<2, 2>>, <<2, TEXT>>, <<TEXT, 2>> }
\* duration_hours cells
Durations == {5, 8, TEXT}

\* pd.to_numeric(..., errors="coerce")
to_numeric(v) == IF v = TEXT \/ v = NaN THEN NaN ELSE v

notna(v) == v # NaN

\* Series.fillna(d)
fillna(v, d) == IF v = NaN THEN d ELSE v

\* NaN-propagating subtraction of two float cells
Sub(a, b) == IF a = NaN \/ b = NaN THEN NaN ELSE a - b

\* the comparison `x > 0` on a float cell: False on NaN
GtZero(v) == v # NaN /\ v > 0

RECURSIVE Flatten(_)
Flatten(ss) == IF ss = <<>> THEN <<>> ELSE Head(ss) \o Flatten(Tail(ss))

RECURSIVE SumSeq(_)
SumSeq(s) == IF s = <<>> THEN 0 ELSE Head(s) + SumSeq(Tail(s))

\* the set of the orders (permutations of 1..n) a table of n rows can be put in
Perms(n) == { p \in [1..n -> 1..n] : \A i, j \in 1..n : p[i] = p[j] => i = j }

\* the elements of a finite set of integers, ascending
RECURSIVE SortedSeq(_)
SortedSeq(S) ==
    IF S = {} THEN <<>>
    ELSE LET m == CHOOSE x \in S : \A y \in S : x <= y
         IN <<m>> \o SortedSeq(S \ {m})

(* ---------------- 2. calcular_gaps ---------------- *)

\* mutant of MergeSkills: how="inner", which drops the employees without a
\* skill record
MergeSkills_Inner(emps, recs) ==
    Flatten([ i \in 1..Len(emps) |->
        LET e == emps[i]
            m == SelectSeq(recs, LAMBDA r : r.employee_id = e.employee_id)
        IN [ j \in 1..Len(m) |->
               [employee_id |-> e.employee_id, rol_actual |-> e.rol_actual,
                skill_name |-> m[j].skill_name,
                skill_level |-> m[j].skill_level] ] ])

\* empleados.merge(skills_empleados, on="employee_id", how="left"): the rows
\* of the left table in order, each with its matches in the right table's
\* order, or once with the right columns missing when it has none.
MergeSkills(emps, recs) ==
    Flatten([ i \in 1..Len(emps) |->
        LET e == emps[i]
            m == SelectSeq(recs, LAMBDA r : r.employee_id = e.employee_id)
        IN IF m = <<>>
           THEN << [employee_id |-> e.employee_id, rol_actual |-> e.rol_actual,
                    skill_name |-> NaN, skill_level |-> NaN] >>
           ELSE [ j \in 1..Len(m) |->
                    [employee_id |-> e.employee_id, rol_actual |-> e.rol_actual,
                     skill_name |-> m[j].skill_name,
                     skill_level |-> m[j].skill_level] ] ])

\* the join condition of the second merge:
\* left_on=["rol_actual", "skill_name"], right_on=["rol", "skill_name"]
RoleMatches(row, req) ==
    req.rol = row.rol_actual /\ req.skill_name = row.skill_name

\* mutant of MergeRoles: the requirements are deduplicated by key before the
\* merge, so a row takes its first match only
MergeRoles_FirstMatch(df, roles) ==
    [ i \in 1..Len(df) |->
        LET row == df[i]
            m == SelectSeq(roles, LAMBDA q : q.rol = row.rol_actual
                                              /\ q.skill_name = row.skill_name)
        IN [employee_id |-> row.employee_id, rol_actual |-> row.rol_actual,
            skill_name |-> row.skill_name, skill_level |-> row.skill_level,
            required_level |-> IF m = <<>> THEN NaN ELSE m[1].required_level,
            weight |-> IF m = <<>> THEN NaN ELSE m[1].weight] ]

\* df.merge(skills_roles, ..., how="left")
MergeRoles(df, roles) ==
    Flatten([ i \in 1..Len(df) |->
        LET row == df[i]
            m == SelectSeq(roles, LAMBDA q : RoleMatches(row, q))
        IN IF m = <<>>
           THEN << [employee_id |-> row.employee_id, rol_actual |-> row.rol_actual,
                    skill_name |-> row.skill_name, skill_level |-> row.skill_level,
                    required_level |-> NaN, weight |-> NaN] >>
           ELSE [ j \in 1..Len(m) |->
                    [employee_id |-> row.employee_id, rol_actual |-> row.rol_actual,
                     skill_name |-> row.skill_name, skill_level |-> row.skill_level,
                     required_level |-> m[j].required_level,
                     weight |-> m[j].weight] ] ])

\* df["gap"] = df["required_level"] - df["skill_level"]
Gap(required_level, skill_level) == Sub(required_level, skill_level)

\* mutant of FillWeight: a missing weight defaults to 0
FillWeight_Zero(weight) == fillna(weight, 0)

\* df["weight"] = df["weight"].fillna(1)
FillWeight(weight) == fillna(weight, 1)

\* mutant of GapSeverity: the test gap > 0 is dropped
GapSeverity_NoSignTest(gap, weight) ==
    IF notna(gap) THEN gap * weight ELSE 0

\* the row lambda of gap_severity
GapSeverity(gap, weight) ==
    IF notna(gap) /\ gap > 0 THEN gap * weight ELSE 0

\* the columns computed on one merged row (lines 70-84)
GapRow(row) ==
    LET skill_level == to_numeric(row.skill_level)
        required_level == to_numeric(row.required_level)
        gap == Gap(required_level, skill_level)
        weight == FillWeight(to_numeric(row.weight))
    IN [employee_id |-> row.employee_id, rol_actual |-> row.rol_actual,
        skill_name |-> row.skill_name, skill_level |-> skill_level,
        required_level |-> required_level, gap |-> gap, weight |-> weight,
        gap_severity |-> GapSeverity(gap, weight)]

\* the DataFrame calcular_gaps returns when skills_roles has a weight column
calcular_gaps(emps, roles, recs) ==
    LET df == MergeRoles(MergeSkills(emps, recs), roles)
    IN [ i \in 1..Len(df) |-> GapRow(df[i]) ]

(* ---------------- 3. resumen_por_rol ---------------- *)

\* mutant of tiene_gap: any defined gap counts, whatever its sign
tiene_gap_AnyDefined(df, id) ==
    \E i \in 1..Len(df) : df[i].employee_id = id /\ notna(df[i].gap)

\* groupby("employee_id")["gap"].apply(
\*     lambda x: (x > 0).any() if x.notna().any() else False)
tiene_gap(df, id) ==
    LET x == SelectSeq(df, LAMBDA r : r.employee_id = id)
    IN IF \E i \in 1..Len(x) : notna(x[i].gap)
       THEN \E i \in 1..Len(x) : GtZero(x[i].gap)
       ELSE FALSE

\* df_gaps[["employee_id", "rol_actual"]].drop_duplicates(), as a set of pairs
df_emp(df) == { <<df[i].employee_id, df[i].rol_actual>> : i \in 1..Len(df) }

(* float64 arithmetic of the percentage (lines 125-127).  A positive double  *)
(* is [m, e]: m its 53 mantissa bits, most significant first and leading    *)
(* with 1, and the value is m * 2^e.  Every operation rounds its exact      *)
(* result to 53 bits, ties to even, as IEEE 754 does.                       *)

\* the bits plus one
IncBits(bits) ==
    LET zeros == { i \in 1..Len(bits) : bits[i] = 0 }
        j == IF zeros = {} THEN 0
             ELSE CHOOSE i \in zeros : \A h \in zeros : h <= i
    IN [ i \in 1..(IF j = 0 THEN Len(bits) + 1 ELSE Len(bits)) |->
           IF j = 0 THEN (IF i = 1 THEN 1 ELSE 0)
           ELSE IF i < j THEN bits[i]
           ELSE IF i = j THEN 1 ELSE 0 ]

\* the binary digits of a natural number, none for 0
RECURSIVE BitsOf(_)
BitsOf(c) == IF c = 0 THEN <<>> ELSE BitsOf(c \div 2) \o <<c % 2>>

\* the natural number of the bits
RECURSIVE ToInt(_)
ToInt(bits) ==
    IF bits = <<>> THEN 0
    ELSE 2 * ToInt(SubSeq(bits, 1, Len(bits) - 1)) + bits[Len(bits)]

\* the first `keep` bits, rounded half to even on the bits dropped
RoundBits(bits, keep) ==
    LET kept == SubSeq(bits, 1, keep)
        rest == SubSeq(bits, keep + 1, Len(bits))
        more == \E i \in 2..Len(rest) : rest[i] = 1
        odd == keep > 0 /\ kept[keep] = 1
        up == rest # <<>> /\ rest[1] = 1 /\ (more \/ odd)
    IN IF up THEN IncBits(kept) ELSE kept

\* the double nearest to bits * 2^e, for bits that lead with 1
Normalize(bits, e) ==
    IF Len(bits) <= 53
    THEN [m |-> bits \o [ i \in 1..(53 - Len(bits)) |-> 0 ],
          e |-> e - (53 - Len(bits))]
    ELSE LET d == Len(bits) - 53
             r == RoundBits(bits, 53)
         IN IF Len(r) = 54
            THEN [m |-> SubSeq(r, 1, 53), e |-> e + d + 1]
            ELSE [m |-> r, e |-> e + d]

\* carry + the bits times the small natural c, exactly, in front of the low
\* bits acc already produced
RECURSIVE MulBits(_, _, _, _)
MulBits(bits, c, carry, acc) ==
    IF bits = <<>> THEN BitsOf(carry) \o acc
    ELSE MulBits(SubSeq(bits, 1, Len(bits) - 1), c,
                 (bits[Len(bits)] * c + carry) \div 2,
                 <<(bits[Len(bits)] * c + carry) % 2>> \o acc)

\* x * c in float64, c a small natural
Fmul(x, c) == Normalize(MulBits(x.m, c, 0, <<>>), x.e)

\* long division k / n for 0 < k <= n: the first 53 significant bits of the
\* quotient, the weight 2^-s of the last of them and what remains
RECURSIVE DivBits(_, _, _, _)
DivBits(r, n, acc, s) ==
    IF Len(acc) = 53 THEN [m |-> acc, rem |-> r, s |-> s - 1]
    ELSE LET b == IF r >= n THEN 1 ELSE 0
         IN DivBits(2 * (r - b * n), n,
                    IF acc = <<>> /\ b = 0 THEN acc ELSE Append(acc, b), s + 1)

\* k / n in float64, for 0 < k <= n
Fdiv(k, n) ==
    LET d == DivBits(k, n, <<>>, 0)
        up == d.rem > n \/ (d.rem = n /\ d.m[53] = 1)
        r == IF up THEN IncBits(d.m) ELSE d.m
    IN IF Len(r) = 54
       THEN [m |-> SubSeq(r, 1, 53), e |-> 1 - d.s]
       ELSE [m |-> r, e |-> 0 - d.s]

\* np.rint of a double below 2^31: the nearest integer, ties to even
Rint(x) ==
    LET ib == 53 + x.e
    IN IF ib < 0 THEN 0
       ELSE IF ib >= 53 THEN ToInt(x.m \o [ i \in 1..(ib - 53) |-> 0 ])
       ELSE ToInt(RoundBits(x.m, ib))

\* (n_con_gap / n_empleados * 100).round(1), in tenths: the division and the
\* product are float64 operations; round(1) multiplies by 10 (in float64),
\* takes rint and divides by 10
Round1(k, n) ==
    IF k = 0 THEN 0
    ELSE Rint(Fmul(Fmul(Fdiv(k, n), 100), 10))

\* the row of one role: the counts, the percentage (in tenths) and the mean
\* severity over all the role's rows (as the sum and the number of rows)
ResumenRow(df, rol) ==
    LET emp == { p \in df_emp(df) : p[2] = rol }
        n_empleados == Cardinality({ p[1] : p \in emp })
        n_con_gap == Cardinality({ p \in emp : tiene_gap(df, p[1]) = TRUE })
        rows == SelectSeq(df, LAMBDA r : r.rol_actual = rol)
    IN [rol_actual |-> rol, n_empleados |-> n_empleados, n_con_gap |-> n_con_gap,
        porcentaje_con_gap |-> Round1(n_con_gap, n_empleados),
        gap_severity_sum |-> SumSeq([ i \in 1..Len(rows) |-> rows[i].gap_severity ]),
        gap_severity_n |-> Len(rows)]

\* groupby("rol_actual") sorts the groups by key and drops a missing key
resumen_por_rol(df) ==
    LET roles == SortedSeq({ df[i].rol_actual : i \in 1..Len(df) } \ {NaN})
    IN [ k \in 1..Len(roles) |-> ResumenRow(df, roles[k]) ]

(* ---------------- sort_values ---------------- *)

\* DataFrame.sort_values(col) with the default kind="quicksort" and
\* na_position="last": the orders the sort can return for the column `keys`.
\* pandas splits off the rows with NaN and appends them in input order; the
\* rows with a number are ordered by numpy's argsort(kind="quicksort"),
\* ascending or descending.  That sort is not stable: the order of rows with
\* equal keys depends on the length of the table and on the numpy build, so
\* every order of them is a possible outcome.
SortOrders(keys, ascending) ==
    { p \in Perms(Len(keys)) :
        \A i, j \in 1..Len(keys) : i < j =>
            LET a == keys[p[i]]
                b == keys[p[j]]
            IN /\ a = NaN => (b = NaN /\ p[i] < p[j])
               /\ (a # NaN /\ b # NaN) => IF ascending THEN a <= b ELSE a >= b }

\* sort_values([c1, c2]) on two columns is a stable lexicographic sort: the
\* one order that keeps input order among equal rows.
LexOrder(k1, k2) ==
    CHOOSE p \in Perms(Len(k1)) :
        \A i, j \in 1..Len(k1) : i < j =>
            \/ k1[p[i]] < k1[p[j]]
            \/ k1[p[i]] = k1[p[j]] /\ k2[p[i]] < k2[p[j]]
            \/ k1[p[i]] = k1[p[j]] /\ k2[p[i]] = k2[p[j]] /\ p[i] < p[j]

\* df.head(n) = df.iloc[:n]: the first n rows, and for a negative n every
\* row but the last -n
head(s, n) ==
    LET stop == IF n < 0 THEN Len(s) + n ELSE n
    IN SubSeq(s, 1, IF stop < 0 THEN 0
                    ELSE IF stop < Len(s) THEN stop ELSE Len(s))

(* ---------------- 4. skills_mas_criticas ---------------- *)

\* mutant of SeveritySums: .first() in place of .sum()
SeveritySums_First(df) ==
    LET names == SortedSeq({ df[i].skill_name : i \in 1..Len(df) } \ {NaN})
    IN [ k \in 1..Len(names) |->
           LET rows == SelectSeq(df, LAMBDA r : r.skill_name = names[k])
           IN [skill_name |-> names[k], gap_severity |-> rows[1].gap_severity] ]

\* groupby("skill_name")["gap_severity"].sum().reset_index(): one row per
\* skill name present (a missing key is dropped), sorted by skill name
SeveritySums(df) ==
    LET names == SortedSeq({ df[i].skill_name : i \in 1..Len(df) } \ {NaN})
    IN [ k \in 1..Len(names) |->
           LET rows == SelectSeq(df, LAMBDA r : r.skill_name = names[k])
           IN [skill_name |-> names[k],
               gap_severity |-> SumSeq([ i \in 1..Len(rows) |-> rows[i].gap_severity ])] ]

\* the ranking, for one order `p` of the sort by gap_severity descending
skills_mas_criticas(df, top_n, p) ==
    LET sums == SeveritySums(df)
    IN head([ k \in 1..Len(sums) |-> sums[p[k]] ], top_n)

\* the orders sort_values("gap_severity", ascending=False) can return
CriticasOrders(df) ==
    LET sums == SeveritySums(df)
    IN SortOrders([ k \in 1..Len(sums) |-> sums[k].gap_severity ], FALSE)

(* ---------------- 5. recomendaciones_formacion ---------------- *)

\* df_gaps[df_gaps["gap"] > 0]
Need(df) == SelectSeq(df, LAMBDA r : GtZero(r.gap))

\* formaciones["duration_hours"] = pd.to_numeric(..., errors="coerce")
CoerceDuration(courses) ==
    [ i \in 1..Len(courses) |->
        [courses[i] EXCEPT !.duration_hours = to_numeric(@)] ]

\* the value of `formaciones` after recomendaciones_formacion(df, courses)
FormacionesAfter(df, courses, hasdur) ==
    IF Need(df) = <<>> THEN courses
    ELSE IF hasdur THEN CoerceDuration(courses) ELSE courses

\* the orders sort_values("duration_hours", ascending=True) can return; with
\* no duration_hours column the table is not sorted
CursosOrders(df, courses, hasdur) ==
    LET c == FormacionesAfter(df, courses, hasdur)
    IN IF hasdur
       THEN SortOrders([ i \in 1..Len(c) |-> c[i].duration_hours ], TRUE)
       ELSE { [ i \in 1..Len(c) |-> i ] }

\* .groupby("skill_name", as_index=False).head(1): the first row of each
\* skill, in the order of the table
GroupHead(courses) ==
    SelectSeq([ i \in 1..Len(courses) |-> [row |-> courses[i], at |-> i] ],
              LAMBDA x : \A j \in 1..(x.at - 1) :
                             courses[j].skill_name # x.row.skill_name)

\* cursos_por_skill, for one order `p` of the sort
cursos_por_skill(courses, p) ==
    LET g == GroupHead([ i \in 1..Len(courses) |-> courses[p[i]] ])
    IN [ i \in 1..Len(g) |-> g[i].row ]

\* mutant of MergeCursos: how="inner", which drops the rows of a skill that
\* has no course
MergeCursos_Inner(need, cursos) ==
    Flatten([ i \in 1..Len(need) |->
        LET row == need[i]
            m == SelectSeq(cursos, LAMBDA c : c.skill_name = row.skill_name)
        IN [ j \in 1..Len(m) |->
               [employee_id |-> row.employee_id, rol_actual |-> row.rol_actual,
                skill_name |-> row.skill_name, skill_level |-> row.skill_level,
                required_level |-> row.required_level, gap |-> row.gap,
                course_id |-> m[j].course_id,
                duration_hours |-> m[j].duration_hours] ] ])

\* df_need.merge(cursos_por_skill, on="skill_name", how="left")
MergeCursos(need, cursos) ==
    Flatten([ i \in 1..Len(need) |->
        LET row == need[i]
            m == SelectSeq(cursos, LAMBDA c : c.skill_name = row.skill_name)
        IN IF m = <<>>
           THEN << [employee_id |-> row.employee_id, rol_actual |-> row.rol_actual,
                    skill_name |-> row.skill_name, skill_level |-> row.skill_level,
                    required_level |-> row.required_level, gap |-> row.gap,
                    course_id |-> NaN, duration_hours |-> NaN] >>
           ELSE [ j \in 1..Len(m) |->
                    [employee_id |-> row.employee_id, rol_actual |-> row.rol_actual,
                     skill_name |-> row.skill_name, skill_level |-> row.skill_level,
                     required_level |-> row.required_level, gap |-> row.gap,
                     course_id |-> m[j].course_id,
                     duration_hours |-> m[j].duration_hours] ] ])

\* the DataFrame recomendaciones_formacion returns, for one order `p` of the
\* sort of the courses
recomendaciones_formacion(df, courses, hasdur, p) ==
    LET df_need == Need(df)
    IN IF df_need = <<>> THEN <<>>
       ELSE LET c == FormacionesAfter(df, courses, hasdur)
                df_rec == MergeCursos(df_need, cursos_por_skill(c, p))
                o == LexOrder([ i \in 1..Len(df_rec) |-> df_rec[i].employee_id ],
                              [ i \in 1..Len(df_rec) |-> df_rec[i].skill_name ])
            IN [ i \in 1..Len(df_rec) |-> df_rec[o[i]] ]

(* ---------------- the input tables ---------------- *)

\* the tables of exactly n rows drawn from Rows
Tables(Rows, n) == [1..n -> Rows]

\* empleados_tech.csv: employee_id is a unique key; the n employees carry the
\* ids 1..n in some order
EmpleadosTables(n) ==
    { [ i \in 1..n |-> [employee_id |-> p[i], rol_actual |-> r[i]] ] :
        p \in Perms(n), r \in [1..n -> Roles] }

\* skills_tech_empleados.csv: records of the n employees and of one id that
\* is not in the employee table
SkillRows(n) ==
    [employee_id : 1..(n + 1), skill_name : Skills, skill_level : SkillLevels]

\* skills_tech_roles.csv; without a weight column the cell is missing
RoleRows(hasw) ==
    { [rol |-> r, skill_name |-> s, required_level |-> q[1],
       weight |-> IF hasw THEN q[2] ELSE NaN] :
        r \in Roles, s \in Skills, q \in Requirements }

\* formaciones_tech.csv: course_id is the row number; without a
\* duration_hours column the cell is missing
FormacionesTables(n, hasdur) ==
    { [ i \in 1..n |-> [course_id |-> i, skill_name |-> sk[i],
                        duration_hours |-> d[i]] ] :
        sk \in [1..n -> Skills],
        d \in [1..n -> IF hasdur THEN Durations ELSE {NaN}] }

\* the course catalogue of the runs that vary the other three tables
Catalogue ==
    << [course_id |-> 1, skill_name |-> 1, duration_hours |-> TEXT],
       [course_id |-> 2, skill_name |-> 1, duration_hours |-> 5] >>

\* the employees, requirements and records of the runs that vary the courses:
\* two employees of role 1, which requires level 2 of both skills
Staff ==
    << [employee_id |-> 1, rol_actual |-> 1],
       [employee_id |-> 2, rol_actual |-> 1] >>

Profile ==
    << [rol |-> 1, skill_name |-> 1, required_level |-> 2, weight |-> 2],
       [rol |-> 1, skill_name |-> 2, required_level |-> 2, weight |-> 1] >>

\* two records of the first employee and one of the second, of any skill,
\* at a level below or at the required one
StaffRecords ==
    { [ i \in 1..3 |-> [employee_id |-> IF i = 3 THEN 2 ELSE 1,
                        skill_name |-> sk[i], skill_level |-> lv[i]] ] :
        sk \in [1..3 -> Skills], lv \in [1..3 -> {1, 2}] }

(* ---------------- the run of main() ---------------- *)

\* after load_data: the tables are read, nothing is computed.
\* InitGaps varies the employees, the skill records and the requirements
\* (with or without a weight column) over all tables of at most MaxRows rows
\* in total, with at least one employee, beside the fixed Catalogue.
InitGaps ==
    /\ \E ne \in 1..MaxRows : \E nr \in 0..(MaxRows - ne) :
         \E nq \in 0..(MaxRows - ne - nr) :
            /\ empleados \in EmpleadosTables(ne)
            /\ skills_empleados \in Tables(SkillRows(ne), nr)
            /\ has_weight \in BOOLEAN
            /\ skills_roles \in Tables(RoleRows(has_weight), nq)
    /\ formaciones = Catalogue
    /\ has_duration = TRUE

\* InitCursos varies the courses (with or without a duration_hours column)
\* and the records of the fixed Staff.
InitCursos ==
    /\ empleados = Staff
    /\ skills_roles = Profile
    /\ has_weight = TRUE
    /\ skills_empleados \in StaffRecords
    /\ has_duration \in BOOLEAN
    /\ \E n \in 0..MaxCourses : formaciones \in FormacionesTables(n, has_duration)

Init ==
    /\ pc = "loaded"
    /\ df_gaps = <<>>
    /\ resumen_rol = <<>>
    /\ criticas = <<>>
    /\ rec_formacion = <<>>
    /\ (InitGaps \/ InitCursos)

\* df_gaps = calcular_gaps(empleados, skills_roles, skills_empleados).
\* Without a weight column df["weight"] (line 79) raises KeyError.
CalcularGaps ==
    /\ pc = "loaded"
    /\ IF has_weight
       THEN /\ df_gaps' = calcular_gaps(empleados, skills_roles, skills_empleados)
            /\ pc' = "gaps"
       ELSE /\ df_gaps' = df_gaps
            /\ pc' = "KeyError"
    /\ UNCHANGED <<empleados, skills_roles, skills_empleados, formaciones,
                   has_weight, has_duration, resumen_rol, criticas,
                   rec_formacion>>

\* resumen_rol = resumen_por_rol(df_gaps)
ResumenPorRol ==
    /\ pc = "gaps"
    /\ resumen_rol' = resumen_por_rol(df_gaps)
    /\ pc' = "resumen"
    /\ UNCHANGED <<empleados, skills_roles, skills_empleados, formaciones,
                   has_weight, has_duration, df_gaps, criticas, rec_formacion>>

\* criticas = skills_mas_criticas(df_gaps, top_n), for any integer top_n,
\* negative and zero included (main passes 10; a top_n of at least the number
\* of skills returns every skill)
SkillsMasCriticas ==
    /\ pc = "resumen"
    /\ \E top_n \in (0 - MaxTopN)..MaxTopN : \E p \in CriticasOrders(df_gaps) :
          criticas' = skills_mas_criticas(df_gaps, top_n, p)
    /\ pc' = "criticas"
    /\ UNCHANGED <<empleados, skills_roles, skills_empleados, formaciones,
                   has_weight, has_duration, df_gaps, resumen_rol,
                   rec_formacion>>

\* rec_formacion = recomendaciones_formacion(df_gaps, formaciones)
RecomendacionesFormacion ==
    /\ pc = "criticas"
    /\ \E p \in CursosOrders(df_gaps, formaciones, has_duration) :
          rec_formacion' =
              recomendaciones_formacion(df_gaps, formaciones, has_duration, p)
    /\ formaciones' = FormacionesAfter(df_gaps, formaciones, has_duration)
    /\ pc' = "done"
    /\ UNCHANGED <<empleados, skills_roles, skills_empleados, has_weight,
                   has_duration, df_gaps, resumen_rol, criticas>>

Next ==
    \/ CalcularGaps
    \/ ResumenPorRol
    \/ SkillsMasCriticas
    \/ RecomendacionesFormacion

Spec == Init /\ [][Next]_vars

(* ================= the claims ================= *)

\* calcular_gaps has returned
GapsDone == pc \in {"gaps", "resumen", "criticas", "done"}

Idx(s) == 1..Len(s)

\* the ids of the employee table
Listed == { empleados[i].employee_id : i \in Idx(empleados) }

\* the role of a listed employee
RoleOf(id) ==
    empleados[CHOOSE i \in Idx(empleados) : empleados[i].employee_id = id].rol_actual

\* the requirements that match (rol, skill)
Matching(rol, skill) ==
    SelectSeq(skills_roles, LAMBDA q : q.rol = rol /\ q.skill_name = skill)

\* the number of skill records of (id, skill)
Recorded(id, skill) ==
    Len(SelectSeq(skills_empleados, LAMBDA r : r.employee_id = id /\ r.skill_name = skill))

\* the number of gap rows of (id, skill)
GapRows(id, skill) ==
    Len(SelectSeq(df_gaps, LAMBDA r : r.employee_id = id /\ r.skill_name = skill))

\* every (rol, skill_name) key of the requirements is unique
UniqueKeys ==
    \A i, j \in Idx(skills_roles) :
        (skills_roles[i].rol = skills_roles[j].rol
         /\ skills_roles[i].skill_name = skills_roles[j].skill_name) => i = j

\* C1 (as claimed): in every gap row severity >= 0, whatever the weight, and
\* severity = 0 whenever gap is undefined or gap <= 0.
C1_SeverityNeverNegative ==
    \A i \in Idx(df_gaps) :
        /\ df_gaps[i].gap_severity >= 0
        /\ (df_gaps[i].gap = NaN \/ df_gaps[i].gap <= 0) => df_gaps[i].gap_severity = 0

\* C1 (amended): in every gap row severity = 0 whenever gap is undefined or
\* gap <= 0, and severity >= 0 whenever the row's weight is >= 0; a positive
\* gap with a negative weight has the negative severity gap * weight.
C1_SeverityAmended ==
    \A i \in Idx(df_gaps) :
        LET row == df_gaps[i]
        IN /\ (row.gap = NaN \/ row.gap <= 0) => row.gap_severity = 0
           /\ row.weight >= 0 => row.gap_severity >= 0
           /\ (row.gap # NaN /\ row.gap > 0) => row.gap_severity = row.gap * row.weight

\* C1 witness: a row with a negative gap under a negative weight (severity 0)
\* beside a row with an undefined gap (severity 0)
C1_Witness ==
    /\ GapsDone
    /\ \E i \in Idx(df_gaps) :
          /\ df_gaps[i].gap # NaN /\ df_gaps[i].gap < 0 /\ df_gaps[i].weight < 0
          /\ df_gaps[i].gap_severity = 0
    /\ \E i \in Idx(df_gaps) :
          df_gaps[i].gap = NaN /\ df_gaps[i].gap_severity = 0

\* C2 (as claimed): weight is defined in every gap row, and is 1 if and only
\* if no requirement matches (the employee's role, the row's skill).
C2_WeightOneIffNoMatch ==
    \A i \in Idx(df_gaps) :
        /\ df_gaps[i].weight # NaN
        /\ df_gaps[i].weight = 1
             <=> Matching(df_gaps[i].rol_actual, df_gaps[i].skill_name) = <<>>

\* C2 (amended): weight is defined in every gap row, and is 1 whenever no
\* requirement matches; a row with a matching requirement carries the numeric
\* weight of a matching requirement, or 1 when that weight is not a number.
C2_WeightAmended ==
    \A i \in Idx(df_gaps) :
        LET row == df_gaps[i]
            m == Matching(row.rol_actual, row.skill_name)
        IN /\ row.weight # NaN
           /\ m = <<>> => row.weight = 1
           /\ m # <<>> => \E k \in Idx(m) :
                 row.weight = (IF m[k].weight \in {TEXT, NaN} THEN 1 ELSE m[k].weight)

\* C2 witness: a row without a matching requirement (weight 1) beside a row
\* whose matching requirement gives it a weight other than 1
C2_Witness ==
    /\ GapsDone
    /\ \E i \in Idx(df_gaps) :
          /\ Matching(df_gaps[i].rol_actual, df_gaps[i].skill_name) = <<>>
          /\ df_gaps[i].weight = 1
    /\ \E i \in Idx(df_gaps) :
          /\ Matching(df_gaps[i].rol_actual, df_gaps[i].skill_name) # <<>>
          /\ df_gaps[i].weight = 2

\* the skill record as the gap table shows it
SameRecord(r, row) ==
    /\ row.employee_id = r.employee_id
    /\ row.skill_name = r.skill_name
    /\ row.skill_level = (IF r.skill_level = TEXT THEN NaN ELSE r.skill_level)

\* C3: with unique (rol, skill_name) keys the gap table holds exactly one row
\* for each skill record of a listed employee, exactly one row, with
\* skill_name and skill_level undefined, for each employee without a record,
\* and no other row; a skill only required, not recorded, has no row.
C3_OneRowPerRecord ==
    (GapsDone /\ UniqueKeys) =>
        /\ \A k \in Idx(skills_empleados) :
              LET r == skills_empleados[k]
              IN r.employee_id \in Listed =>
                    Len(SelectSeq(df_gaps, LAMBDA row : SameRecord(r, row)))
                    = Len(SelectSeq(skills_empleados, LAMBDA q :
                              /\ q.employee_id = r.employee_id
                              /\ q.skill_name = r.skill_name
                              /\ (q.skill_level = r.skill_level
                                  \/ {q.skill_level, r.skill_level} \subseteq {TEXT, NaN})))
        /\ \A id \in Listed :
              (\A k \in Idx(skills_empleados) : skills_empleados[k].employee_id # id) =>
                  /\ Len(SelectSeq(df_gaps, LAMBDA row : row.employee_id = id)) = 1
                  /\ \A i \in Idx(df_gaps) : df_gaps[i].employee_id = id =>
                        df_gaps[i].skill_name = NaN /\ df_gaps[i].skill_level = NaN
        /\ \A i \in Idx(df_gaps) :
              /\ df_gaps[i].employee_id \in Listed
              /\ IF df_gaps[i].skill_name = NaN
                 THEN \A k \in Idx(skills_empleados) :
                         skills_empleados[k].employee_id # df_gaps[i].employee_id
                 ELSE \E k \in Idx(skills_empleados) :
                         SameRecord(skills_empleados[k], df_gaps[i])

\* C3 witness: unique keys, an employee without any record, an employee with
\* a record, and a skill its role requires that it has no record of
C3_Witness ==
    /\ GapsDone /\ UniqueKeys
    /\ \E id \in Listed : \A s \in Skills : Recorded(id, s) = 0
    /\ \E id \in Listed : \E s, t \in Skills :
          /\ Recorded(id, s) > 0
          /\ Recorded(id, t) = 0
          /\ Matching(RoleOf(id), t) # <<>>
          /\ GapRows(id, t) = 0

\* a raw cell as the number the engine reads it as
Num(v) == IF v = TEXT THEN NaN ELSE v

\* a requirement's weight as the gap table carries it
WeightOf(q) == IF Num(q.weight) = NaN THEN 1 ELSE q.weight

\* C9 (as claimed): also with duplicated (rol, skill_name) keys the gap table
\* holds exactly one row for each (employee, recorded skill) pair, and the
\* row carries required_level and weight of the first matching requirement.
C9_FirstMatchOnly ==
    GapsDone =>
        /\ \A id \in Listed : \A s \in Skills : GapRows(id, s) = Recorded(id, s)
        /\ \A i \in Idx(df_gaps) :
              LET m == Matching(df_gaps[i].rol_actual, df_gaps[i].skill_name)
              IN m # <<>> =>
                    /\ df_gaps[i].required_level = Num(m[1].required_level)
                    /\ df_gaps[i].weight = WeightOf(m[1])

\* C9 (amended): for each (employee, recorded skill) pair the gap table holds
\* one row per matching requirement (one row when none matches), and each of
\* these rows carries required_level and weight of its requirement.
C9_OneRowPerMatch ==
    GapsDone =>
        /\ \A n \in Idx(skills_empleados) :
              LET id == skills_empleados[n].employee_id
                  s == skills_empleados[n].skill_name
              IN id \in Listed =>
                 LET m == Matching(RoleOf(id), s)
                 IN /\ GapRows(id, s)
                         = Recorded(id, s) * (IF m = <<>> THEN 1 ELSE Len(m))
                    /\ \A k \in Idx(m) :
                          Len(SelectSeq(df_gaps, LAMBDA r :
                                  /\ r.employee_id = id /\ r.skill_name = s
                                  /\ r.required_level = Num(m[k].required_level)
                                  /\ r.weight = WeightOf(m[k])))
                          = Recorded(id, s)
                            * Len(SelectSeq(m, LAMBDA q :
                                      /\ Num(q.required_level) = Num(m[k].required_level)
                                      /\ WeightOf(q) = WeightOf(m[k])))
        /\ \A i \in Idx(df_gaps) :
              df_gaps[i].skill_name # NaN =>
                  Recorded(df_gaps[i].employee_id, df_gaps[i].skill_name) > 0

\* C9 witness: a recorded skill with two matching requirements of different
\* weights, and so two gap rows
C9_Witness ==
    /\ GapsDone
    /\ \E id \in Listed : \E s \in Skills :
          LET m == Matching(RoleOf(id), s)
          IN /\ Len(m) = 2 /\ WeightOf(m[1]) # WeightOf(m[2])
             /\ Recorded(id, s) = 1
             /\ GapRows(id, s) = 2

\* C8 (as claimed): calcular_gaps never raises when the required columns are
\* there, the weight column being optional: it returns a gap table whose
\* unresolved fields are undefined, whose weight is defaulted to 1 and whose
\* rows with an undefined gap have severity 0.
C8_NeverRaises ==
    pc # "loaded" =>
        /\ pc # "KeyError"
        /\ Len(df_gaps) >= Len(empleados)
        /\ \A i \in Idx(df_gaps) :
              LET row == df_gaps[i]
              IN /\ row.weight # NaN
                 /\ row.gap = NaN => row.gap_severity = 0
                 /\ Matching(row.rol_actual, row.skill_name) = <<>> =>
                       /\ row.required_level = NaN
                       /\ row.gap = NaN
                       /\ row.weight = 1

\* resumen_por_rol has returned
ResumenDone == pc \in {"resumen", "criticas", "done"}

\* the distinct employee ids whose gap rows carry the role
IdsOfRole(rol) ==
    { df_gaps[i].employee_id : i \in { j \in Idx(df_gaps) : df_gaps[j].rol_actual = rol } }

\* the employee has at least one row with a defined gap > 0
HasGap(id) ==
    \E i \in Idx(df_gaps) :
        df_gaps[i].employee_id = id /\ df_gaps[i].gap # NaN /\ df_gaps[i].gap > 0

\* C6: every row of the role summary counts the distinct employee ids whose
\* gap rows carry the role (n_empleados) and those of them with at least one
\* defined gap > 0 (n_con_gap), so the percentage lies in [0, 100]; there is
\* exactly one row per role present in the gap table.
C6_RoleCounts ==
    ResumenDone =>
        /\ { resumen_rol[k].rol_actual : k \in Idx(resumen_rol) }
              = { df_gaps[i].rol_actual : i \in Idx(df_gaps) }
        /\ \A k, l \in Idx(resumen_rol) :
              resumen_rol[k].rol_actual = resumen_rol[l].rol_actual => k = l
        /\ \A k \in Idx(resumen_rol) :
              LET row == resumen_rol[k]
                  ids == IdsOfRole(row.rol_actual)
              IN /\ row.n_empleados = Cardinality(ids)
                 /\ row.n_con_gap = Cardinality({ id \in ids : HasGap(id) })
                 /\ row.porcentaje_con_gap >= 0
                 /\ row.porcentaje_con_gap <= 1000

\* C6 witness: a role of two employees, one with a positive gap and one whose
\* gaps are all undefined: 50.0 percent
C6_Witness ==
    /\ ResumenDone
    /\ \E k \in Idx(resumen_rol) :
          /\ resumen_rol[k].n_empleados = 2
          /\ resumen_rol[k].n_con_gap = 1
          /\ resumen_rol[k].porcentaje_con_gap = 500
          /\ \E id \in IdsOfRole(resumen_rol[k].rol_actual) :
                \A i \in Idx(df_gaps) :
                    df_gaps[i].employee_id = id => df_gaps[i].gap = NaN

\* the severity of the first n gap rows that carry the skill
RECURSIVE SeverityUpTo(_, _)
SeverityUpTo(skill, n) ==
    IF n = 0 THEN 0
    ELSE SeverityUpTo(skill, n - 1)
         + (IF df_gaps[n].skill_name = skill THEN df_gaps[n].gap_severity ELSE 0)

\* C7: every entry of the ranking carries the sum of the severity of all the
\* gap rows of its skill, and no skill has two entries.
C7_TotalSeverity ==
    pc \in {"criticas", "done"} =>
        /\ \A k \in Idx(criticas) :
              criticas[k].gap_severity
                 = SeverityUpTo(criticas[k].skill_name, Len(df_gaps))
        /\ \A k, l \in Idx(criticas) :
              criticas[k].skill_name = criticas[l].skill_name => k = l

\* C7 witness: an entry whose skill has two gap rows of different, non-zero
\* severity
C7_Witness ==
    /\ pc \in {"criticas", "done"}
    /\ \E k \in Idx(criticas) : \E i, j \in Idx(df_gaps) :
          /\ i # j
          /\ df_gaps[i].skill_name = criticas[k].skill_name
          /\ df_gaps[j].skill_name = criticas[k].skill_name
          /\ df_gaps[i].gap_severity # 0
          /\ df_gaps[j].gap_severity # 0
          /\ df_gaps[i].gap_severity # df_gaps[j].gap_severity

\* the gap row and the recommendation row are the same employee, skill,
\* levels and gap
SameGap(g, r) ==
    /\ g.employee_id = r.employee_id /\ g.rol_actual = r.rol_actual
    /\ g.skill_name = r.skill_name /\ g.skill_level = r.skill_level
    /\ g.required_level = r.required_level /\ g.gap = r.gap

\* the rows of the course table of the skill
CoursesOf(skill) == { i \in Idx(formaciones) : formaciones[i].skill_name = skill }

\* C4: the recommendation rows are the gap rows with a defined gap > 0, each
\* exactly once (as often as the gap table holds it), and no other row; a
\* row has null course fields exactly when its skill has no course.
C4_OneRowPerNeed ==
    pc = "done" =>
        /\ Len(rec_formacion)
              = Len(SelectSeq(df_gaps, LAMBDA g : g.gap # NaN /\ g.gap > 0))
        /\ \A i \in Idx(df_gaps) :
              Len(SelectSeq(rec_formacion, LAMBDA r : SameGap(df_gaps[i], r)))
              = IF df_gaps[i].gap # NaN /\ df_gaps[i].gap > 0
                THEN Len(SelectSeq(df_gaps, LAMBDA g : SameGap(g, df_gaps[i])))
                ELSE 0
        /\ \A j \in Idx(rec_formacion) :
              LET r == rec_formacion[j]
              IN /\ r.gap # NaN /\ r.gap > 0
                 /\ \E i \in Idx(df_gaps) : SameGap(df_gaps[i], r)
                 /\ r.course_id = NaN <=> CoursesOf(r.skill_name) = {}
                 /\ r.course_id # NaN => r.course_id \in CoursesOf(r.skill_name)

\* C4 witness: a recommendation with a course, one without (its skill has
\* none), and a gap row that is not recommended
C4_Witness ==
    /\ pc = "done"
    /\ \E j \in Idx(rec_formacion) : rec_formacion[j].course_id # NaN
    /\ \E j \in Idx(rec_formacion) : rec_formacion[j].course_id = NaN
    /\ Len(df_gaps) > Len(rec_formacion)

\* C5 (as claimed): the course attached to a recommendation is the one of
\* smallest numeric duration_hours among the courses of the skill, a course
\* without a numeric duration only when the skill has no other, and among the
\* courses tied on the deciding duration the first in input order.
C5_ShortestThenFirst ==
    pc = "done" =>
        \A j \in Idx(rec_formacion) :
            LET r == rec_formacion[j]
                cs == CoursesOf(r.skill_name)
                num == { i \in cs : Num(formaciones[i].duration_hours) # NaN }
                best == { i \in num : \A k \in num :
                            formaciones[i].duration_hours <= formaciones[k].duration_hours }
                tied == IF num # {} THEN best ELSE cs
            IN cs # {} =>
                  /\ r.course_id \in tied
                  /\ \A i \in tied : r.course_id <= i

\* C10 (as claimed): no operation of the engine changes a table passed to
\* it: the four input tables, and the gap table once it is computed, keep
\* their values over every call.
C10_InputsUnchanged ==
    [][ /\ empleados' = empleados
        /\ skills_roles' = skills_roles
        /\ skills_empleados' = skills_empleados
        /\ formaciones' = formaciones
        /\ GapsDone => df_gaps' = df_gaps ]_vars

====
